---- MODULE Spec2Model ----
(***************************************************************************)
(* The group-chat program of src/process_specific_agent.py and             *)
(* src/orchestration.py: the POST handler process_run, the run threads it  *)
(* starts (run_thread, process_group_chat), the admission lock             *)
(* GROUP_CHAT_LOCK, the lazily constructed shared orchestration object,    *)
(* the manager ProcessGroupChatManager (select_next_agent,                 *)
(* should_terminate, should_request_user_input, filter_results) that the   *)
(* turn loop of GroupChatOrchestration.invoke consults, the observer       *)
(* callback with the token accounting of src/utils/metrics.py, and the     *)
(* interactive loop ProcessAgent.run.                                      *)
(*                                                                         *)
(* Three specifications share the definitions: Spec is the server,         *)
(* InteractiveSpec is ProcessAgent.run reading lines, UsageSpec is the     *)
(* observer callback applied to a sequence of responses.                   *)
(*                                                                         *)
(* Text (message contents, agent names, the keyword, input lines) is a     *)
(* sequence of one-character strings, so that str.lower(), str.strip() and *)
(* the substring test `in` are computed character by character.            *)
(***************************************************************************)
EXTENDS Integers, Sequences, FiniteSets, TLC

(* Number of POST submissions a behaviour contains. *)
MaxSubmissions == 3

(* Number of lines the interactive loop reads in a behaviour. *)
MaxLines == 3

(* Number of responses handed to the observer callback in UsageSpec. *)
MaxReports == 3

(* Batches the embedding script embeds. *)
MaxBatches == 3

Threads == 1..MaxSubmissions

(***************************************************************************)
(* Text                                                                    *)
(***************************************************************************)
Uppers ==
  <<"A","B","C","D","E","F","G","H","I","J","K","L","M",
    "N","O","P","Q","R","S","T","U","V","W","X","Y","Z">>

Lowers ==
  <<"a","b","c","d","e","f","g","h","i","j","k","l","m",
    "n","o","p","q","r","s","t","u","v","w","x","y","z">>

Others == {" ", ":", ".", ",", "_", "@", "?"}

Chars == {Uppers[i] : i \in DOMAIN Uppers} \cup {Lowers[i] : i \in DOMAIN Lowers} \cup Others

(* str.lower() on one character. *)
LowerChar ==
  [c \in Chars |->
     IF \E i \in DOMAIN Uppers : Uppers[i] = c
     THEN Lowers[CHOOSE i \in DOMAIN Uppers : Uppers[i] = c]
     ELSE c]

(* str.lower() *)
lower(s) == [i \in DOMAIN s |-> LowerChar[s[i]]]

(* Python's `needle in hay` on str. *)
contains(hay, needle) ==
  \E i \in 0..(Len(hay) - Len(needle)) :
     SubSeq(hay, i + 1, i + Len(needle)) = needle

(* The whitespace of the alphabet. *)
Whitespace == {" "}

(* str.strip(): the text between its first and its last character that is  *)
(* not whitespace.                                                         *)
strip(s) ==
  LET kept == {i \in DOMAIN s : s[i] \notin Whitespace}
  IN  IF kept = {} THEN <<>>
      ELSE SubSeq(s, CHOOSE i \in kept : \A j \in kept : i <= j,
                     CHOOSE i \in kept : \A j \in kept : j <= i)

(***************************************************************************)
(* Configuration: agents, roster, keyword                                  *)
(***************************************************************************)
Calculator_Agent == [name |-> <<"C","a","l","c","u","l","a","t","o","r","_","A","g","e","n","t">>]
Triage_Agent     == [name |-> <<"T","r","i","a","g","e","_","A","g","e","n","t">>]
Retriever_Agent  == [name |-> <<"R","e","t","r","i","e","v","e","r","_","A","g","e","n","t">>]
Composer_Agent   == [name |-> <<"C","o","m","p","o","s","e","r","_","A","g","e","n","t">>]
triage_agent_lc  == [name |-> <<"t","r","i","a","g","e","_","a","g","e","n","t">>]

(* The keyword set at construction. *)
Done == <<"D","o","n","e">>

(* ProcessGroupChatManager(max_rounds=5) *)
max_rounds == 5

(* The clarification suffix of select_next_agent. *)
Suffix ==
  <<" ","P","l","e","a","s","e"," ","m","e","n","t","i","o","n"," ","t","h","e"," ",
    "A","G","E","N","T"," ","n","a","m","e"," ","w","h","i","c","h"," ","n","e","e","d","s"," ",
    "t","o"," ","e","x","e","c","u","t","e"," ","t","h","e"," ",
    "i","n","s","t","r","u","c","t","i","o","n",".">>

(* The starting agent and the member list get_group_chat_orchestration     *)
(* builds: the server's, the three-agent one of src/orchestration.py, one  *)
(* whose roster spells the starting agent in another letter case, and one  *)
(* whose member list lacks the starting agent.                             *)
MemberConfigs ==
  { [starting |-> Calculator_Agent, members |-> <<Calculator_Agent>>],
    [starting |-> Triage_Agent, members |-> <<Triage_Agent, Retriever_Agent, Composer_Agent>>],
    [starting |-> Triage_Agent, members |-> <<Retriever_Agent, triage_agent_lc>>],
    [starting |-> Triage_Agent, members |-> <<Retriever_Agent, Composer_Agent>>] }

NoAgent == [name |-> <<>>]
NoKeyword == <<>>
NoOrchestration == [members |-> <<>>, manager |-> [max_rounds |-> 0, current_round |-> 0]]

(***************************************************************************)
(* Inputs: request bodies and agent responses                              *)
(***************************************************************************)
UserEmailIds == { <<"a","@","b">> }

(* One task: it contains the keyword and names an agent that is not the     *)
(* starting agent.                                                         *)
UserMessages == { <<"D","o","n","e","?"," ","C","o","m","p","o","s","e","r","_","A","g","e","n","t">> }

GroupChatInputs == [user_email_id : UserEmailIds, user_message : UserMessages]

NoInput == [user_email_id |-> <<>>, user_message |-> <<>>]

(* Names two agents, neither in the roster's letter case; Composer comes   *)
(* first in the text, Retriever comes first in the roster.                 *)
R_TwoNames  == <<"c","o","m","p","o","s","e","r","_","a","g","e","n","t"," ","o","r"," ",
                 "R","E","T","R","I","E","V","E","R","_","A","G","E","N","T">>
R_NoName    == <<"t","h","i","n","k","i","n","g">>
R_Keyword   == <<"a","l","l"," ","D","O","N","E">>
R_KeywordAndName == <<"d","o","n","e",","," ","C","o","m","p","o","s","e","r","_","A","g","e","n","t">>

(* What an agent invocation may answer. *)
AgentResponses == {R_TwoNames, R_NoName, R_Keyword, R_KeywordAndName}

(* A usage object: the attributes it has and their values. *)
Usage(attrs, prompt_tokens, completion_tokens) ==
  [attrs |-> attrs,
   prompt_tokens |-> prompt_tokens,
   completion_tokens |-> completion_tokens,
   total_tokens |-> prompt_tokens + completion_tokens]

(* response.metadata with a 'usage' entry, and without one. *)
WithUsage(usage) == [keys |-> {"usage"}, usage |-> usage]
NoUsage == [keys |-> {}, usage |-> Usage({}, 0, 0)]

PromptAndCompletion == {"prompt_tokens", "completion_tokens"}

(* The metadata an agent's response may carry in a run: both counts, no    *)
(* usage entry, the prompt count alone.                                    *)
TurnMetadata ==
  { WithUsage(Usage(PromptAndCompletion, 3, 2)),
    NoUsage,
    WithUsage(Usage({"prompt_tokens"}, 3, 0)) }

(* What an agent invocation may hand back in a run: any of the contents    *)
(* with both counts, and one content with each of the other metadata.      *)
AgentTurns ==
  {turn \in [content : AgentResponses, metadata : TurnMetadata] :
     \/ PromptAndCompletion \subseteq turn.metadata.usage.attrs
     \/ turn.content = R_NoName}

(* A usage object whose total_tokens counts more than its prompt and       *)
(* completion counts together.                                             *)
UsageWithOverhead ==
  [attrs |-> PromptAndCompletion \cup {"total_tokens"},
   prompt_tokens |-> 4, completion_tokens |-> 1, total_tokens |-> 9]

(* The metadata handed to the observer callback in UsageSpec: the reports  *)
(* (10,5) and (3,2), no usage entry, the prompt count alone, a usage       *)
(* object that also has total_tokens, and one whose total_tokens is more   *)
(* than the sum of its counts.                                             *)
ReportedMetadata ==
  { WithUsage(Usage(PromptAndCompletion, 10, 5)),
    WithUsage(Usage(PromptAndCompletion, 3, 2)),
    NoUsage,
    WithUsage(Usage({"prompt_tokens"}, 7, 0)),
    WithUsage(Usage(PromptAndCompletion \cup {"total_tokens"}, 10, 5)),
    WithUsage(UsageWithOverhead) }

(* The contents handed to the observer callback in UsageSpec: text, blanks *)
(* only, nothing.                                                          *)
ObservedContents == {R_NoName, <<" ", " ">>, <<>>}

(* The lines input("User > ") may return. *)
ConsoleLines ==
  { <<>>,
    <<" ", " ">>,
    <<"e", "x", "i", "t">>,
    <<"E", "x", "i", "t", " ">>,
    <<"r", "e", "s", "e", "t">>,
    <<" ", "R", "E", "S", "E", "T">>,
    <<"h", "i">>,
    <<"e", "x", "i", "t", "s">> }

VARIABLES
  GROUP_CHAT_LOCK,            \* 0 when unlocked, else the thread holding it
  GROUP_CHAT_ORCHESTRATION,   \* NoOrchestration (None) until constructed
  STARTING_AGENT,
  TERMINATION_KEYWORD,
  responses,                  \* the JSON response to each POST, in arrival order
  pc,                         \* where the run thread of each submission is
  input_data,                 \* the request body handed to each run thread
  history,                    \* the session history (ChatHistory.messages) of each run
  selected,                   \* the agent the selector chose for the pending invocation
  invoked,                    \* agent invocations dispatched in each run
  outcome,                    \* how each run thread ended
  orchestration_result,       \* what each run's orchestration_result.get() returns
  process_agent,              \* the ProcessAgent whose bound method is the observer callback
  constructions,              \* GroupChatOrchestration objects constructed so far
  runtimes,                   \* the InProcessRuntime objects created so far, each "started" or "closed"
  entry_point,                \* "server", or the file whose ProcessAgent.run is executing
  console,                    \* where ProcessAgent.run is
  line,                       \* the line input("User > ") returned last
  lines_read,                 \* lines read so far
  submitted,                  \* the tasks ProcessAgent.run passed to invoke, in order
  usage_log,                  \* the responses handed to the observer callback in UsageSpec
  client,                     \* src/test.py: the remote embedding client, or None
  local_embedder,             \* src/test.py: whether the local fallback model is loaded
  embed_pc,                   \* where the embedding script is
  attempt,                    \* the loop variable of embed_with_retry
  calls,                      \* remote embedding calls made for the current batch
  slept,                      \* the back-off waits of the current batch, in seconds
  embs,                       \* where the embeddings of each stored batch came from
  error                       \* the exception the last remote call raised, if any

vars == <<GROUP_CHAT_LOCK, GROUP_CHAT_ORCHESTRATION, STARTING_AGENT, TERMINATION_KEYWORD,
          responses, pc, input_data, history, selected, invoked, outcome,
          orchestration_result, process_agent, constructions, runtimes,
          entry_point, console, line, lines_read, submitted, usage_log,
          client, local_embedder, embed_pc, attempt, calls, slept, embs, error>>

globals == <<GROUP_CHAT_ORCHESTRATION, STARTING_AGENT, TERMINATION_KEYWORD>>

interactive == <<entry_point, console, line, lines_read, submitted>>

embedding == <<client, local_embedder, embed_pc, attempt, calls, slept, embs, error>>

Unlocked == 0

(* The ways a run ends: by return after termination, or by an exception.   *)
Exits == {"terminated", "config_error", "invocation_failed", "callback_failed"}

InBody == {"init", "construct", "select", "invoke", "check", "user_input"} \cup Exits

(* The session slot the interactive loop's runs use. *)
Main == 1

(* The state after import: nothing constructed, no request, no line. *)
Loaded ==
  /\ GROUP_CHAT_LOCK = Unlocked
  /\ GROUP_CHAT_ORCHESTRATION = NoOrchestration
  /\ STARTING_AGENT = NoAgent
  /\ TERMINATION_KEYWORD = NoKeyword
  /\ responses = <<>>
  /\ pc = [t \in Threads |-> "none"]
  /\ input_data = [t \in Threads |-> NoInput]
  /\ history = [t \in Threads |-> <<>>]
  /\ selected = [t \in Threads |-> <<>>]
  /\ invoked = [t \in Threads |-> 0]
  /\ outcome = [t \in Threads |-> "none"]
  /\ orchestration_result = [t \in Threads |-> <<>>]
  /\ process_agent = [total_tokens_consumed |-> 0,
                      total_prompt_tokens_consumed |-> 0,
                      total_completion_tokens_consumed |-> 0]
  /\ constructions = 0
  /\ runtimes = <<>>
  /\ line = <<>>
  /\ lines_read = 0
  /\ submitted = <<>>
  /\ usage_log = <<>>
  /\ client = "None"
  /\ local_embedder = FALSE
  /\ embed_pc = "import"
  /\ attempt = 0
  /\ calls = 0
  /\ slept = <<>>
  /\ embs = <<>>
  /\ error = [kind |-> "none", msg |-> <<>>]

Init ==
  /\ Loaded
  /\ entry_point = "server"
  /\ console = "off"

(***************************************************************************)
(* ProcessGroupChatManager                                                 *)
(***************************************************************************)
FirstIndex(S) == CHOOSE i \in S : \A j \in S : i <= j

(* The roster handed to the selector: the members' names in member order.  *)
participant_descriptions ==
  [i \in DOMAIN GROUP_CHAT_ORCHESTRATION.members |-> GROUP_CHAT_ORCHESTRATION.members[i].name]

StringResult(result, messages) ==
  [raised |-> FALSE, result |-> result, reason |-> "Custom selection logic.", messages |-> messages]

StartingAgentError(messages) ==
  [raised |-> TRUE, result |-> <<>>,
   reason |-> "Starting Agent is not part of the Group Chat. Please add the Starting Agent to the member agents",
   messages |-> messages]

(* The roster entries the first-turn loop accepts: those equal to the      *)
(* starting agent's name, both lowered.                                    *)
is_starting_agent_exact(agent_name) ==
  agent_name = STARTING_AGENT.name

is_starting_agent(agent_name) ==
  lower(agent_name) = lower(STARTING_AGENT.name)

(* The first-turn loop ended without a return. *)
starting_agent_defaulted(chat_history, descriptions) ==
  StringResult(descriptions[1], chat_history)

starting_agent_missing(chat_history, descriptions) ==
  StartingAgentError(chat_history)

(* Where needle first occurs in hay (0-based), hay's length when nowhere. *)
find(hay, needle) ==
  IF contains(hay, needle)
  THEN FirstIndex({i \in 0..(Len(hay) - Len(needle)) :
                     SubSeq(hay, i + 1, i + Len(needle)) = needle})
  ELSE Len(hay)

(* The roster scan: the first roster entry, in roster order, whose lowered *)
(* name occurs in the lowered content.                                     *)
first_named_by_position(last_message_content, descriptions) ==
  LET named == {i \in DOMAIN descriptions :
                  contains(lower(last_message_content), lower(descriptions[i]))}
  IN  IF named = {} THEN 0
      ELSE CHOOSE i \in named : \A j \in named :
             \/ find(lower(last_message_content), lower(descriptions[i]))
                  < find(lower(last_message_content), lower(descriptions[j]))
             \/ /\ find(lower(last_message_content), lower(descriptions[i]))
                     = find(lower(last_message_content), lower(descriptions[j]))
                /\ i <= j

first_named(last_message_content, descriptions) ==
  LET named == {i \in DOMAIN descriptions :
                  contains(lower(last_message_content), lower(descriptions[i]))}
  IN  IF named = {} THEN 0 ELSE FirstIndex(named)

(* No name found: the last message gains the suffix and its author is      *)
(* chosen again.                                                           *)
retry_with_starting_agent(chat_history) ==
  LET n == Len(chat_history)
  IN  StringResult(STARTING_AGENT.name, [chat_history EXCEPT ![n].content = @ \o Suffix])

(* The retry given up when the message before the last was retried too. *)
retry_at_most_once(chat_history) ==
  LET n == Len(chat_history)
  IN  IF n > 2 /\ contains(chat_history[n - 1].content, Suffix)
      THEN StartingAgentError(chat_history)
      ELSE StringResult(chat_history[n].name, [chat_history EXCEPT ![n].content = @ \o Suffix])

(* The retry that puts the suffix in place of the content. *)
retry_replacing_content(chat_history) ==
  LET n == Len(chat_history)
  IN  StringResult(chat_history[n].name, [chat_history EXCEPT ![n].content = Suffix])

retry_with_same_agent(chat_history) ==
  LET n == Len(chat_history)
  IN  StringResult(chat_history[n].name, [chat_history EXCEPT ![n].content = @ \o Suffix])

(* The selector that answers the first turn with the configured name of    *)
(* the starting agent instead of the roster's spelling of it.              *)
select_next_agent_configured_name(chat_history, descriptions) ==
  LET n == Len(chat_history)
      starting == {i \in DOMAIN descriptions : is_starting_agent(descriptions[i])}
      agent == first_named(lower(chat_history[n].content), descriptions)
  IN  IF n = 1
      THEN IF starting # {}
           THEN StringResult(STARTING_AGENT.name, chat_history)
           ELSE starting_agent_missing(chat_history, descriptions)
      ELSE IF agent # 0
           THEN StringResult(descriptions[agent], chat_history)
           ELSE retry_with_same_agent(chat_history)

(* select_next_agent: the chosen name, and the history as the call leaves  *)
(* it.                                                                     *)
select_next_agent(chat_history, descriptions) ==
  LET n == Len(chat_history)
      starting == {i \in DOMAIN descriptions : is_starting_agent(descriptions[i])}
      last_message_content == lower(chat_history[n].content)
      agent == first_named(last_message_content, descriptions)
  IN  IF n = 1
      THEN IF starting # {}
           THEN StringResult(descriptions[FirstIndex(starting)], chat_history)
           ELSE starting_agent_missing(chat_history, descriptions)
      ELSE IF agent # 0
           THEN StringResult(descriptions[agent], chat_history)
           ELSE retry_with_same_agent(chat_history)

(* GroupChatManager.should_terminate, the baseline rule behind super():    *)
(* counts the round and stops once the round cap is reached.               *)
base_should_terminate(manager) ==
  [result |-> manager.current_round + 1 >= manager.max_rounds,
   reason |-> "Maximum rounds reached.",
   current_round |-> manager.current_round + 1]

(* The keyword test of should_terminate. *)
keyword_in_content_unlowered(chat_history) ==
  LET last_message_content == lower(chat_history[Len(chat_history)].content)
  IN  contains(last_message_content, TERMINATION_KEYWORD)

(* The keyword test by equality. *)
keyword_is_content(chat_history) ==
  LET last_message_content == lower(chat_history[Len(chat_history)].content)
  IN  last_message_content = lower(TERMINATION_KEYWORD)

keyword_in_content(chat_history) ==
  LET last_message_content == lower(chat_history[Len(chat_history)].content)
  IN  contains(last_message_content, lower(TERMINATION_KEYWORD))

(* should_terminate that never asks the baseline rule. *)
should_terminate_keyword_only(chat_history) ==
  LET manager == GROUP_CHAT_ORCHESTRATION.manager
  IN  [result |-> keyword_in_content(chat_history), reason |-> "Custom termination logic.",
       current_round |-> manager.current_round]

(* should_terminate that answers every stop with its own result. *)
should_terminate_own_reason(chat_history) ==
  LET manager == GROUP_CHAT_ORCHESTRATION.manager
      base_result == base_should_terminate(manager)
  IN  IF keyword_in_content(chat_history)
      THEN [result |-> TRUE, reason |-> "Custom termination logic.",
            current_round |-> manager.current_round]
      ELSE [result |-> base_result.result, reason |-> "Custom termination logic.",
            current_round |-> base_result.current_round]

(* should_terminate that names the keyword match as its reason. *)
should_terminate_keyword_reason(chat_history) ==
  LET manager == GROUP_CHAT_ORCHESTRATION.manager
      base_result == base_should_terminate(manager)
  IN  IF keyword_in_content(chat_history)
      THEN [result |-> TRUE, reason |-> "keyword matched",
            current_round |-> manager.current_round]
      ELSE IF base_result.result
           THEN base_result
           ELSE [result |-> FALSE, reason |-> "Custom termination logic.",
                 current_round |-> base_result.current_round]

(* should_terminate: the decision, and the manager's round count after it. *)
should_terminate(chat_history) ==
  LET manager == GROUP_CHAT_ORCHESTRATION.manager
      base_result == base_should_terminate(manager)
  IN  IF keyword_in_content(chat_history)
      THEN [result |-> TRUE, reason |-> "Custom termination logic.",
            current_round |-> manager.current_round]
      ELSE IF base_result.result
           THEN base_result
           ELSE [result |-> FALSE, reason |-> "Custom termination logic.",
                 current_round |-> base_result.current_round]

(* should_request_user_input that asks for input once the agents have     *)
(* answered twice.                                                         *)
should_request_user_input_after_two(chat_history) ==
  [result |-> Len(chat_history) > 2, reason |-> "No user input required."]

(* should_request_user_input *)
should_request_user_input(chat_history) ==
  [result |-> FALSE, reason |-> "No user input required."]

(* The placeholder summary. *)
summary ==
  <<"S","u","m","m","a","r","y"," ","o","f"," ","t","h","e"," ",
    "d","i","s","c","u","s","s","i","o","n",".">>

(* filter_results that hands back the last message of the discussion. *)
filter_results_last_message(chat_history) ==
  [result |-> [role |-> chat_history[Len(chat_history)].role,
               content |-> chat_history[Len(chat_history)].content],
   reason |-> "Custom summary logic."]

(* filter_results *)
filter_results(chat_history) ==
  [result |-> [role |-> "assistant", content |-> summary],
   reason |-> "Custom summary logic."]

(***************************************************************************)
(* Token accounting: src/utils/metrics.py and the observer callback        *)
(***************************************************************************)
(* What a call gives back: an exception, one value, or a tuple of values.  *)
Raised == [raised |-> TRUE, is_tuple |-> FALSE, value |-> <<>>]
Returned(value) == [raised |-> FALSE, is_tuple |-> FALSE, value |-> <<value>>]
ReturnedTuple(values) == [raised |-> FALSE, is_tuple |-> TRUE, value |-> values]

(* extract_consumed_token_count: result.metadata['usage'] raises KeyError  *)
(* without the entry; a usage object with total_tokens gives that one      *)
(* number; one with both counts gives the three numbers; any other gives   *)
(* the number 0.                                                           *)
extract_consumed_token_count(result) ==
  IF "usage" \notin result.metadata.keys
  THEN Raised
  ELSE LET usage_info == result.metadata.usage
       IN  IF "total_tokens" \in usage_info.attrs
           THEN Returned(usage_info.total_tokens)
           ELSE IF {"prompt_tokens", "completion_tokens"} \subseteq usage_info.attrs
                THEN ReturnedTuple(<<usage_info.prompt_tokens,
                                     usage_info.completion_tokens,
                                     usage_info.prompt_tokens + usage_info.completion_tokens>>)
                ELSE Returned(0)

(* log_token_usage: unpacks what extract_consumed_token_count gives into   *)
(* three names, which raises TypeError on a number.                        *)
log_token_usage(response) ==
  LET extracted == extract_consumed_token_count(response)
  IN  IF extracted.raised \/ ~extracted.is_tuple \/ Len(extracted.value) # 3
      THEN Raised
      ELSE extracted

(* The three += with the prompt count added to the total alone. *)
accumulate_prompt_as_total(self, logged) ==
  [total_prompt_tokens_consumed |-> self.total_prompt_tokens_consumed + logged.value[1],
   total_completion_tokens_consumed |-> self.total_completion_tokens_consumed + logged.value[2],
   total_tokens_consumed |-> self.total_tokens_consumed + logged.value[1]]

(* self after the three += of the callback. *)
accumulate(self, logged) ==
  [total_prompt_tokens_consumed |-> self.total_prompt_tokens_consumed + logged.value[1],
   total_completion_tokens_consumed |-> self.total_completion_tokens_consumed + logged.value[2],
   total_tokens_consumed |-> self.total_tokens_consumed + logged.value[3]]

(* agent_response_callback testing the content without strip(). *)
agent_response_callback_unstripped(self, response) ==
  IF response.content # <<>>
  THEN LET logged == log_token_usage(response)
       IN  IF logged.raised
           THEN [raised |-> TRUE, printed |-> TRUE, self |-> self]
           ELSE [raised |-> FALSE, printed |-> TRUE, self |-> accumulate(self, logged)]
  ELSE [raised |-> FALSE, printed |-> FALSE, self |-> self]

(* agent_response_callback on the ProcessAgent self: whether it raised,    *)
(* whether it printed the turn, and self afterwards.                       *)
agent_response_callback(self, response) ==
  IF strip(response.content) # <<>>
  THEN LET logged == log_token_usage(response)
       IN  IF logged.raised
           THEN [raised |-> TRUE, printed |-> TRUE, self |-> self]
           ELSE [raised |-> FALSE, printed |-> TRUE, self |-> accumulate(self, logged)]
  ELSE [raised |-> FALSE, printed |-> FALSE, self |-> self]

(***************************************************************************)
(* The POST handler                                                        *)
(***************************************************************************)
Conflict == [status_code |-> 409, status |-> "failed", message |-> "Previous Request is in process."]
Accepted == [status_code |-> 200, status |-> "success", message |-> "Processing started"]

(* GROUP_CHAT_LOCK.locked() *)
locked == GROUP_CHAT_LOCK # Unlocked

(* process_run without the locked() test. *)
process_run_unchecked(group_chat_input) ==
  /\ Len(responses) < MaxSubmissions
  /\ LET t == Len(responses) + 1
     IN  /\ pc' = [pc EXCEPT ![t] = "start"]
         /\ input_data' = [input_data EXCEPT ![t] = group_chat_input]
         /\ responses' = Append(responses, Accepted)
  /\ UNCHANGED <<GROUP_CHAT_LOCK, globals, history, selected, invoked, outcome,
                 orchestration_result, process_agent, constructions, runtimes,
                 interactive, usage_log, embedding>>

(* process_run calling run_thread itself instead of starting a thread:     *)
(* the run is over when the response is made.                              *)
process_run_inline(group_chat_input) ==
  /\ Len(responses) < MaxSubmissions
  /\ LET t == Len(responses) + 1
     IN  IF locked
         THEN /\ responses' = Append(responses, Conflict)
              /\ UNCHANGED <<pc, outcome>>
         ELSE /\ pc' = [pc EXCEPT ![t] = "done"]
              /\ outcome' = [outcome EXCEPT ![t] = "invocation_failed"]
              /\ responses' = Append(responses, Accepted)
  /\ UNCHANGED <<GROUP_CHAT_LOCK, globals, input_data, history, selected, invoked,
                 orchestration_result, process_agent, constructions, runtimes,
                 interactive, usage_log, embedding>>

(* process_run: the submission is the next thread id; a thread is started  *)
(* only when the lock is not held at this moment.                          *)
process_run(group_chat_input) ==
  /\ Len(responses) < MaxSubmissions
  /\ LET t == Len(responses) + 1
     IN  IF locked
         THEN /\ responses' = Append(responses, Conflict)
              /\ UNCHANGED <<pc, input_data>>
         ELSE /\ pc' = [pc EXCEPT ![t] = "start"]
              /\ input_data' = [input_data EXCEPT ![t] = group_chat_input]
              /\ responses' = Append(responses, Accepted)
  /\ UNCHANGED <<GROUP_CHAT_LOCK, globals, history, selected, invoked, outcome,
                 orchestration_result, process_agent, constructions, runtimes,
                 interactive, usage_log, embedding>>

(***************************************************************************)
(* The run thread                                                          *)
(***************************************************************************)
(* Entry that does not wait for the lock. *)
acquire_without_waiting(t) ==
  GROUP_CHAT_LOCK' = t

(* Entry that waits for the lock and lets it go before the body runs. *)
acquire_and_drop(t) ==
  /\ GROUP_CHAT_LOCK = Unlocked
  /\ GROUP_CHAT_LOCK' = Unlocked

(* with GROUP_CHAT_LOCK: entry blocks until the lock is free. *)
acquire(t) ==
  /\ GROUP_CHAT_LOCK = Unlocked
  /\ GROUP_CHAT_LOCK' = t

(* Exit that releases on return only, not on exception. *)
release_on_return_only(t) ==
  GROUP_CHAT_LOCK' = IF pc[t] = "terminated" THEN Unlocked ELSE GROUP_CHAT_LOCK

(* with GROUP_CHAT_LOCK: exit, on return and on exception alike. *)
release(t) ==
  GROUP_CHAT_LOCK' = Unlocked

run_thread(t) ==
  /\ pc[t] = "start"
  /\ acquire(t)
  /\ pc' = [pc EXCEPT ![t] = "init"]
  /\ UNCHANGED <<globals, responses, input_data, history, selected, invoked, outcome,
                 orchestration_result, process_agent, constructions, runtimes,
                 interactive, usage_log, embedding>>

(* The test of get_group_chat_orchestration, always true. *)
always_construct == TRUE

(* if not GROUP_CHAT_ORCHESTRATION *)
needs_construction == GROUP_CHAT_ORCHESTRATION = NoOrchestration

(* get_group_chat_orchestration, the branch that builds: the agents are    *)
(* made, then the three globals are assigned.                              *)
get_group_chat_orchestration(config) ==
  /\ STARTING_AGENT' = config.starting
  /\ TERMINATION_KEYWORD' = Done
  /\ GROUP_CHAT_ORCHESTRATION' =
       [members |-> config.members,
        manager |-> [max_rounds |-> max_rounds, current_round |-> 0]]
  /\ constructions' = constructions + 1

(* InProcessRuntime() followed by runtime.start() *)
start_runtime(rts) == Append(rts, "started")

(* invoke that consults the termination policy on the task message. *)
invoke_checking_first(t, task) ==
  /\ history' = [history EXCEPT ![t] = << [role |-> "user", name |-> <<>>, content |-> task] >>]
  /\ pc' = [pc EXCEPT ![t] = "check"]

(* group_chat_orchestration.invoke(task=...): the session starts with the  *)
(* task as one user message.                                               *)
invoke(t, task) ==
  /\ history' = [history EXCEPT ![t] = << [role |-> "user", name |-> <<>>, content |-> task] >>]
  /\ pc' = [pc EXCEPT ![t] = "select"]

(* The task process_group_chat builds from the request body. *)
message(t) == input_data[t].user_email_id \o <<":", " ">> \o input_data[t].user_message

(* process_group_chat up to the construction of the shared object: the     *)
(* runtime is started and the shared object is looked up; when it exists,  *)
(* the run is submitted with the task.                                     *)
process_group_chat(t) ==
  /\ pc[t] = "init"
  /\ runtimes' = start_runtime(runtimes)
  /\ IF needs_construction
     THEN /\ pc' = [pc EXCEPT ![t] = "construct"]
          /\ UNCHANGED history
     ELSE invoke(t, message(t))
  /\ UNCHANGED <<GROUP_CHAT_LOCK, globals, responses, input_data, selected, invoked, outcome,
                 orchestration_result, process_agent, constructions,
                 interactive, usage_log, embedding>>

(* The shared object is built and assigned, and the run is submitted. *)
Constructing(t) ==
  /\ pc[t] = "construct"
  /\ \E config \in MemberConfigs : get_group_chat_orchestration(config)
  /\ invoke(t, message(t))
  /\ UNCHANGED <<GROUP_CHAT_LOCK, responses, input_data, selected, invoked, outcome,
                 orchestration_result, process_agent, runtimes,
                 interactive, usage_log, embedding>>

(* The turn loop that group_chat_orchestration.invoke and                  *)
(* orchestration_result.get() run: SELECTING, INVOKING, APPENDING,         *)
(* CHECK_TERMINATE, then SELECTING again or the end of the run.  The       *)
(* manager, with its round count, belongs to the shared orchestration      *)
(* object and so outlives the run.                                         *)

(* SELECTING: the selector is consulted; its exception ends the run. *)
Selecting(t) ==
  /\ pc[t] = "select"
  /\ LET r == select_next_agent(history[t], participant_descriptions)
     IN  IF r.raised
         THEN /\ pc' = [pc EXCEPT ![t] = "config_error"]
              /\ UNCHANGED <<history, selected, invoked>>
         ELSE /\ pc' = [pc EXCEPT ![t] = "invoke"]
              /\ history' = [history EXCEPT ![t] = r.messages]
              /\ selected' = [selected EXCEPT ![t] = r.result]
              /\ invoked' = [invoked EXCEPT ![t] = @ + 1]
  /\ UNCHANGED <<GROUP_CHAT_LOCK, globals, responses, input_data, outcome,
                 orchestration_result, process_agent, constructions, runtimes,
                 interactive, usage_log, embedding>>

(* INVOKING and APPENDING: the selected agent answers, its message is      *)
(* appended to the history and handed to the observer callback, whose      *)
(* exception ends the run.                                                 *)
Invoking(t) ==
  /\ pc[t] = "invoke"
  /\ \E turn \in AgentTurns :
       LET response == [role |-> "assistant", name |-> selected[t],
                        content |-> turn.content, metadata |-> turn.metadata]
           observed == agent_response_callback(process_agent, response)
       IN  /\ history' = [history EXCEPT ![t] =
                            Append(@, [role |-> response.role, name |-> response.name,
                                       content |-> response.content])]
           /\ process_agent' = observed.self
           /\ pc' = [pc EXCEPT ![t] = IF observed.raised THEN "callback_failed" ELSE "check"]
  /\ UNCHANGED <<GROUP_CHAT_LOCK, globals, responses, input_data, selected, invoked, outcome,
                 orchestration_result, constructions, runtimes, interactive, usage_log, embedding>>

(* INVOKING: the agent's external call errors. *)
InvocationFailure(t) ==
  /\ pc[t] = "invoke"
  /\ pc' = [pc EXCEPT ![t] = "invocation_failed"]
  /\ UNCHANGED <<GROUP_CHAT_LOCK, globals, responses, input_data, history, selected, invoked,
                 outcome, orchestration_result, process_agent, constructions, runtimes,
                 interactive, usage_log, embedding>>

(* CHECK_TERMINATE: the manager is asked whether to wait for the user and  *)
(* whether to stop; on stopping, filter_results makes the run's result.    *)
CheckTerminate(t) ==
  /\ pc[t] = "check"
  /\ IF should_request_user_input(history[t]).result
     THEN /\ pc' = [pc EXCEPT ![t] = "user_input"]
          /\ UNCHANGED <<GROUP_CHAT_ORCHESTRATION, orchestration_result>>
     ELSE LET r == should_terminate(history[t])
          IN  /\ GROUP_CHAT_ORCHESTRATION' =
                   [GROUP_CHAT_ORCHESTRATION EXCEPT !.manager.current_round = r.current_round]
              /\ pc' = [pc EXCEPT ![t] = IF r.result THEN "terminated" ELSE "select"]
              /\ orchestration_result' =
                   [orchestration_result EXCEPT ![t] =
                      IF r.result THEN <<filter_results(history[t]).result>> ELSE @]
  /\ UNCHANGED <<GROUP_CHAT_LOCK, STARTING_AGENT, TERMINATION_KEYWORD, responses, input_data,
                 history, selected, invoked, outcome, process_agent, constructions, runtimes,
                 interactive, usage_log, embedding>>

(* How a run ended, as run_thread sees it: by return, by the selector's    *)
(* exception, or by the exception of a failed turn, which an exception of  *)
(* the observer callback is too.                                           *)
ending(p) == IF p = "callback_failed" THEN "invocation_failed" ELSE p

(* The session of a run that is over is discarded. *)
discard(t) ==
  /\ history' = [history EXCEPT ![t] = <<>>]
  /\ selected' = [selected EXCEPT ![t] = <<>>]
  /\ invoked' = [invoked EXCEPT ![t] = 0]
  /\ orchestration_result' = [orchestration_result EXCEPT ![t] = <<>>]

(* run_thread that runs the body again after an exception. *)
run_thread_exit_retrying(t) ==
  /\ pc[t] \in Exits
  /\ IF pc[t] = "terminated"
     THEN /\ release(t)
          /\ outcome' = [outcome EXCEPT ![t] = ending(pc[t])]
          /\ pc' = [pc EXCEPT ![t] = "done"]
          /\ input_data' = [input_data EXCEPT ![t] = NoInput]
     ELSE /\ pc' = [pc EXCEPT ![t] = "init"]
          /\ UNCHANGED <<GROUP_CHAT_LOCK, outcome, input_data>>
  /\ discard(t)
  /\ UNCHANGED <<globals, responses, process_agent, constructions, runtimes,
                 interactive, usage_log, embedding>>

(* run_thread leaves the with block: by return after "Group Chat Over", or *)
(* by the exception of a failed run.                                       *)
run_thread_exit(t) ==
  /\ pc[t] \in Exits
  /\ release(t)
  /\ outcome' = [outcome EXCEPT ![t] = ending(pc[t])]
  /\ pc' = [pc EXCEPT ![t] = "done"]
  /\ discard(t)
  /\ input_data' = [input_data EXCEPT ![t] = NoInput]
  /\ UNCHANGED <<globals, responses, process_agent, constructions, runtimes,
                 interactive, usage_log, embedding>>

Next ==
  \/ \E group_chat_input \in GroupChatInputs : process_run(group_chat_input)
  \/ \E t \in Threads : run_thread(t)
  \/ \E t \in Threads : process_group_chat(t)
  \/ \E t \in Threads : Constructing(t)
  \/ \E t \in Threads : Selecting(t)
  \/ \E t \in Threads : Invoking(t)
  \/ \E t \in Threads : InvocationFailure(t)
  \/ \E t \in Threads : CheckTerminate(t)
  \/ \E t \in Threads : run_thread_exit(t)

Spec == Init /\ [][Next]_vars

(***************************************************************************)
(* The interactive loop: ProcessAgent.run                                  *)
(***************************************************************************)
exit == <<"e", "x", "i", "t">>
reset == <<"r", "e", "s", "e", "t">>

(* The exit test without lower(). *)
is_exit_exact(user_input) == user_input = exit

(* user_input.lower() == "exit" *)
is_exit(user_input) == lower(user_input) = exit

(* user_input.lower() == "reset" *)
is_reset(user_input) == lower(user_input) = reset

(* await runtime.close() on the current runtime, the one created last. *)
close_runtime(rts) == [rts EXCEPT ![Len(rts)] = "closed"]

(* The reset branch without the close. *)
reset_without_close(rts) == start_runtime(rts)

(* The reset branch: the current runtime is closed, a new one is created   *)
(* and started.                                                            *)
reset_runtime(rts) == start_runtime(close_runtime(rts))

(* Leaving run: src/orchestration.py closes the runtime in a finally       *)
(* clause, src/process_specific_agent.py has none.                         *)
leave(rts) == IF entry_point = "orchestration" THEN close_runtime(rts) ELSE rts

(* run up to the loop: the runtime is started and the shared object is     *)
(* fetched, which builds it on first use.                                  *)
run_enter ==
  /\ console = "start"
  /\ runtimes' = start_runtime(runtimes)
  /\ IF needs_construction
     THEN \E config \in MemberConfigs : get_group_chat_orchestration(config)
     ELSE UNCHANGED <<globals, constructions>>
  /\ console' = "reading"
  /\ UNCHANGED <<GROUP_CHAT_LOCK, responses, pc, input_data, history, selected, invoked, outcome,
                 orchestration_result, process_agent, entry_point, line, lines_read, submitted,
                 usage_log, embedding>>

(* The loop whose reset branch also starts the usage totals afresh. *)
read_line_resetting_totals(l) ==
  /\ console = "reading"
  /\ lines_read < MaxLines
  /\ line' = l
  /\ lines_read' = lines_read + 1
  /\ LET user_input == strip(l)
     IN  IF user_input = <<>>
         THEN UNCHANGED <<console, runtimes, submitted, pc, history, process_agent>>
         ELSE IF is_exit(user_input)
         THEN /\ console' = "exited"
              /\ runtimes' = leave(runtimes)
              /\ UNCHANGED <<submitted, pc, history, process_agent>>
         ELSE IF is_reset(user_input)
         THEN /\ runtimes' = reset_runtime(runtimes)
              /\ process_agent' = [total_tokens_consumed |-> 0,
                                   total_prompt_tokens_consumed |-> 0,
                                   total_completion_tokens_consumed |-> 0]
              /\ UNCHANGED <<console, submitted, pc, history>>
         ELSE /\ submitted' = Append(submitted, user_input)
              /\ invoke(Main, user_input)
              /\ console' = "running"
              /\ UNCHANGED <<runtimes, process_agent>>
  /\ UNCHANGED <<GROUP_CHAT_LOCK, globals, responses, input_data, selected, invoked, outcome,
                 orchestration_result, constructions, entry_point, usage_log, embedding>>

(* One pass of the loop up to its continue, break or invoke. *)
read_line(l) ==
  /\ console = "reading"
  /\ lines_read < MaxLines
  /\ line' = l
  /\ lines_read' = lines_read + 1
  /\ LET user_input == strip(l)
     IN  IF user_input = <<>>
         THEN UNCHANGED <<console, runtimes, submitted, pc, history>>
         ELSE IF is_exit(user_input)
         THEN /\ console' = "exited"
              /\ runtimes' = leave(runtimes)
              /\ UNCHANGED <<submitted, pc, history>>
         ELSE IF is_reset(user_input)
         THEN /\ runtimes' = reset_runtime(runtimes)
              /\ UNCHANGED <<console, submitted, pc, history>>
         ELSE /\ submitted' = Append(submitted, user_input)
              /\ invoke(Main, user_input)
              /\ console' = "running"
              /\ UNCHANGED runtimes
  /\ UNCHANGED <<GROUP_CHAT_LOCK, globals, responses, input_data, selected, invoked, outcome,
                 orchestration_result, process_agent, constructions, entry_point, usage_log, embedding>>

(* await orchestration_result.get() returns: src/process_specific_agent.py *)
(* reads the next line, src/orchestration.py breaks out of the loop.       *)
run_over ==
  /\ console = "running"
  /\ pc[Main] = "terminated"
  /\ pc' = [pc EXCEPT ![Main] = "none"]
  /\ discard(Main)
  /\ IF entry_point = "orchestration"
     THEN /\ console' = "exited"
          /\ runtimes' = leave(runtimes)
     ELSE /\ console' = "reading"
          /\ UNCHANGED runtimes
  /\ UNCHANGED <<GROUP_CHAT_LOCK, globals, responses, input_data, outcome, process_agent,
                 constructions, entry_point, line, lines_read, submitted, usage_log, embedding>>

(* await orchestration_result.get() raises: run ends with the exception. *)
run_raised ==
  /\ console = "running"
  /\ pc[Main] \in Exits \ {"terminated"}
  /\ pc' = [pc EXCEPT ![Main] = "none"]
  /\ discard(Main)
  /\ console' = "raised"
  /\ runtimes' = leave(runtimes)
  /\ UNCHANGED <<GROUP_CHAT_LOCK, globals, responses, input_data, outcome, process_agent,
                 constructions, entry_point, line, lines_read, submitted, usage_log, embedding>>

InteractiveInit ==
  /\ Loaded
  /\ entry_point \in {"process_specific_agent", "orchestration"}
  /\ console = "start"

InteractiveNext ==
  \/ run_enter
  \/ \E l \in ConsoleLines : read_line(l)
  \/ \E t \in Threads : Selecting(t)
  \/ \E t \in Threads : Invoking(t)
  \/ \E t \in Threads : InvocationFailure(t)
  \/ \E t \in Threads : CheckTerminate(t)
  \/ run_over
  \/ run_raised

InteractiveSpec == InteractiveInit /\ [][InteractiveNext]_vars

(***************************************************************************)
(* The observer callback on a sequence of responses                        *)
(***************************************************************************)
(* The orchestration hands one response to the callback. *)
Observing(content, metadata) ==
  /\ Len(usage_log) < MaxReports
  /\ LET response == [role |-> "assistant", name |-> Calculator_Agent.name,
                      content |-> content, metadata |-> metadata]
         observed == agent_response_callback(process_agent, response)
     IN  /\ process_agent' = observed.self
         /\ usage_log' = Append(usage_log, [content |-> content, metadata |-> metadata,
                                            raised |-> observed.raised,
                                            printed |-> observed.printed])
  /\ UNCHANGED <<GROUP_CHAT_LOCK, globals, responses, pc, input_data, history, selected, invoked,
                 outcome, orchestration_result, constructions, runtimes, interactive,
                 embedding>>

UsageNext ==
  \E content \in ObservedContents, metadata \in ReportedMetadata : Observing(content, metadata)

UsageSpec == Init /\ [][UsageNext]_vars

(***************************************************************************)
(* The embedding script: src/test.py                                       *)
(***************************************************************************)
MAX_RETRIES == 5
BACKOFF_BASE == 2

(* The values GOOGLE_API_KEY may have in the environment: unset, set. *)
ApiKeys == {<<>>, <<"k","e","y">>}

NoError == [kind |-> "none", msg |-> <<>>]

(* The messages of the ClientError a remote call may raise. *)
ClientErrorMessages ==
  { <<"4","2","9"," ","R","E","S","O","U","R","C","E","_","E","X","H","A","U","S","T","E","D">>,
    <<"Q","u","o","t","a"," ","e","x","c","e","e","d","e","d">>,
    <<"4","0","0"," ","I","N","V","A","L","I","D","_","A","R","G","U","M","E","N","T">>,
    <<"4","0","3"," ","P","E","R","M","I","S","S","I","O","N","_","D","E","N","I","E","D">> }

(* What client.models.embed_content may do: return the embeddings, raise a *)
(* ClientError, raise an exception of another class.                       *)
RemoteOutcomes ==
  {[kind |-> "ok", msg |-> <<>>]}
    \cup {[kind |-> "ClientError", msg |-> m] : m \in ClientErrorMessages}
    \cup {[kind |-> "ServerError", msg |-> <<"5","0","3"," ","U","N","A","V","A","I","L","A","B","L","E">>]}

(* "RESOURCE_EXHAUSTED" in msg or "429" in msg or "Quota" in msg *)
is_quota_error(msg) ==
  \/ contains(msg, <<"R","E","S","O","U","R","C","E","_","E","X","H","A","U","S","T","E","D">>)
  \/ contains(msg, <<"4","2","9">>)
  \/ contains(msg, <<"Q","u","o","t","a">>)

(* The loop that goes on to a sixth attempt. *)
retries_exhausted_late(n) == n > MAX_RETRIES

(* for attempt in range(1, MAX_RETRIES + 1): attempt n was the last. *)
retries_exhausted(n) == n >= MAX_RETRIES

(* fallback_embed: the local model is loaded on first use and supplies the *)
(* embeddings.                                                             *)
fallback_embed ==
  /\ local_embedder' = TRUE
  /\ embs' = Append(embs, "fallback")
  /\ embed_pc' = "idle"

(* client = genai.Client(api_key=GOOGLE_API_KEY) if GOOGLE_API_KEY else None *)
create_client(GOOGLE_API_KEY) ==
  /\ embed_pc = "import"
  /\ client' = IF GOOGLE_API_KEY # <<>> THEN "Client" ELSE "None"
  /\ embed_pc' = "idle"
  /\ UNCHANGED <<local_embedder, attempt, calls, slept, embs, error>>
  /\ UNCHANGED <<GROUP_CHAT_LOCK, globals, responses, pc, input_data, history, selected, invoked,
                 outcome, orchestration_result, process_agent, constructions, runtimes,
                 interactive, usage_log>>

(* embed_with_retry is called for a batch: without a client the fallback   *)
(* answers, otherwise the loop starts with attempt 1.                      *)
embed_with_retry ==
  /\ embed_pc = "idle"
  /\ Len(embs) < MaxBatches
  /\ calls' = 0
  /\ slept' = <<>>
  /\ error' = NoError
  /\ IF client = "None"
     THEN /\ fallback_embed
          /\ UNCHANGED attempt
     ELSE /\ attempt' = 1
          /\ embed_pc' = "attempt"
          /\ UNCHANGED <<local_embedder, embs>>
  /\ UNCHANGED client
  /\ UNCHANGED <<GROUP_CHAT_LOCK, globals, responses, pc, input_data, history, selected, invoked,
                 outcome, orchestration_result, process_agent, constructions, runtimes,
                 interactive, usage_log>>

(* One pass of the loop: the remote call returns, or raises a quota error  *)
(* (back-off, then the next attempt or, the attempts used up, the          *)
(* fallback), or raises anything else, which leaves embed_with_retry.      *)
embed_content(response) ==
  /\ embed_pc = "attempt"
  /\ calls' = calls + 1
  /\ error' = IF response.kind = "ok" THEN NoError ELSE response
  /\ IF response.kind = "ok"
     THEN /\ embs' = Append(embs, "remote")
          /\ embed_pc' = "idle"
          /\ UNCHANGED <<local_embedder, attempt, slept>>
     ELSE IF response.kind = "ClientError" /\ is_quota_error(response.msg)
     THEN /\ slept' = Append(slept, BACKOFF_BASE ^ attempt)
          /\ IF retries_exhausted(attempt)
             THEN /\ fallback_embed
                  /\ UNCHANGED attempt
             ELSE /\ attempt' = attempt + 1
                  /\ UNCHANGED <<local_embedder, embs, embed_pc>>
     ELSE /\ embed_pc' = "raised"
          /\ UNCHANGED <<local_embedder, attempt, slept, embs>>
  /\ UNCHANGED client
  /\ UNCHANGED <<GROUP_CHAT_LOCK, globals, responses, pc, input_data, history, selected, invoked,
                 outcome, orchestration_result, process_agent, constructions, runtimes,
                 interactive, usage_log>>

EmbedNext ==
  \/ \E GOOGLE_API_KEY \in ApiKeys : create_client(GOOGLE_API_KEY)
  \/ embed_with_retry
  \/ \E response \in RemoteOutcomes : embed_content(response)

EmbedSpec == Init /\ [][EmbedNext]_vars

(***************************************************************************)
(* Properties                                                              *)
(***************************************************************************)
roster == participant_descriptions

last_content(t) == history[t][Len(history[t])].content

(* A POST is answered in this step. *)
Answered == Len(responses') = Len(responses) + 1

Executing == {t \in Threads : pc[t] \in InBody}

(* C1: at most one thread is inside the body of the with block (the       *)
(* execution of process_group_chat) in every reachable state.             *)
C1_OneRunAtATime == Cardinality(Executing) <= 1

(* A run is executing while another accepted thread waits for the lock.    *)
C1_Witness ==
  \E t, u \in Threads : pc[t] \in InBody /\ pc[u] = "start"

(* C2: at most one accepted submission is unfinished at any time, and no  *)
(* accepted submission waits for the lock while another thread holds it.   *)
C2_NoAcceptedWaits ==
  /\ Cardinality({t \in Threads : pc[t] \notin {"none", "done"}}) <= 1
  /\ \A t \in Threads : pc[t] = "start" => ~locked

(* C3: a POST answered while the lock is held gets 409 / 'failed', and the *)
(* step starts no thread and no invocation.                                *)
C3_ConflictWhileLocked ==
  [][ (Answered /\ GROUP_CHAT_LOCK # Unlocked) =>
        /\ responses'[Len(responses')].status_code = 409
        /\ responses'[Len(responses')].status = "failed"
        /\ pc' = pc
        /\ invoked' = invoked
        /\ history' = history ]_vars

(* A submission was rejected while a thread held the lock. *)
C3_Witness ==
  /\ Len(responses) >= 2
  /\ responses[Len(responses)].status_code = 409
  /\ pc[Len(responses)] = "none"
  /\ GROUP_CHAT_LOCK # Unlocked

(* C4: a thread that leaves its run, by return or by exception, leaves    *)
(* the lock free; the lock is held only by a thread inside its run; and a  *)
(* POST answered when no run is executing is accepted and starts a thread. *)
C4_ReleasedOnEveryExit ==
  [][ /\ \A t \in Threads :
           (pc[t] \in Exits /\ pc'[t] = "done")
             => GROUP_CHAT_LOCK' = Unlocked
      /\ GROUP_CHAT_LOCK' # Unlocked => pc'[GROUP_CHAT_LOCK'] \in InBody
      /\ (Answered /\ Executing = {}) =>
           /\ responses'[Len(responses')].status_code = 200
           /\ pc'[Len(responses')] = "start" ]_vars

(* The first run failed in an invocation, the second submission came while *)
(* it ran and was rejected, the third came after it ended and was taken.   *)
C4_Witness ==
  /\ Len(responses) = 3
  /\ responses[1].status_code = 200
  /\ responses[2].status_code = 409
  /\ responses[3].status_code = 200
  /\ outcome[1] = "invocation_failed"

(* C5: the step that accepts a submission answers with exactly the fixed   *)
(* acceptance record, and at that moment the run it started has not ended  *)
(* and has produced no turn.                                               *)
C5_ImmediateAcceptance ==
  [][ (Answered /\ responses'[Len(responses')].status_code = 200) =>
        LET t == Len(responses')
        IN  /\ responses'[t] =
                 [status_code |-> 200, status |-> "success", message |-> "Processing started"]
            /\ pc'[t] = "start"
            /\ outcome'[t] = "none"
            /\ history'[t] = <<>>
            /\ invoked'[t] = 0 ]_vars

(* The acceptance was answered and the run it started is in a turn. *)
C5_Witness ==
  \E t \in Threads :
     /\ t <= Len(responses)
     /\ responses[t].status_code = 200
     /\ pc[t] = "invoke"

(* The roster holds the starting agent, names compared lowered. *)
StartingInRoster ==
  \E i \in DOMAIN roster : lower(roster[i]) = lower(STARTING_AGENT.name)

(* C6: with the starting agent in the roster, the selection made on a     *)
(* one-message history is a roster name equal, case-insensitively, to the  *)
(* starting agent's; the selector does not fail; and the first response of *)
(* every run is the starting agent's.                                      *)
C6_FirstSpeakerIsStartingAgent ==
  \A t \in Threads :
     /\ (pc[t] = "invoke" /\ Len(history[t]) = 1) =>
          /\ \E i \in DOMAIN roster : roster[i] = selected[t]
          /\ lower(selected[t]) = lower(STARTING_AGENT.name)
     /\ (pc[t] = "config_error" => ~StartingInRoster)
     /\ Len(history[t]) >= 2 =>
          /\ \E i \in DOMAIN roster : roster[i] = history[t][2].name
          /\ lower(history[t][2].name) = lower(STARTING_AGENT.name)

(* The first selection returned the roster's spelling, which is not the    *)
(* starting agent's own.                                                   *)
C6_Witness ==
  \E t \in Threads :
     /\ pc[t] = "invoke"
     /\ Len(history[t]) = 1
     /\ selected[t] # STARTING_AGENT.name
     /\ selected[t] = triage_agent_lc.name

(* C7: when the roster lacks the starting agent, no run dispatches an      *)
(* invocation, a run that has raised the error still holds only the task   *)
(* message, and every run that ended ended with the configuration error.   *)
C7_ConfigErrorBeforeInvocation ==
  (GROUP_CHAT_ORCHESTRATION # NoOrchestration /\ ~StartingInRoster) =>
     \A t \in Threads :
        /\ invoked[t] = 0
        /\ pc[t] \notin {"invoke", "check", "terminated", "invocation_failed", "callback_failed"}
        /\ pc[t] = "config_error" =>
             /\ Len(history[t]) = 1
             /\ history[t][1].role = "user"
        /\ outcome[t] \in {"none", "config_error"}

(* A run has raised the configuration error. *)
C7_Witness ==
  \E t \in Threads :
     /\ pc[t] = "config_error"
     /\ ~StartingInRoster
     /\ invoked[t] = 0
     /\ Len(history[t]) = 1

(* The roster positions whose name occurs, lowered, in the lowered text. *)
NamedIn(content) ==
  {i \in DOMAIN roster : contains(lower(content), lower(roster[i]))}

(* The selector is consulted on a history of more than one message. *)
SelectsLater(t) ==
  /\ pc[t] = "select"
  /\ pc'[t] # "select"
  /\ Len(history[t]) > 1

(* C8: on a history of more than one message whose last content names a    *)
(* roster entry, the selection is the named entry of least roster          *)
(* position.                                                               *)
C8_FirstInRosterOrder ==
  [][ \A t \in Threads :
        (SelectsLater(t) /\ NamedIn(last_content(t)) # {}) =>
           /\ pc'[t] = "invoke"
           /\ \E i \in NamedIn(last_content(t)) :
                /\ selected'[t] = roster[i]
                /\ \A j \in NamedIn(last_content(t)) : i <= j ]_vars

(* The text names Composer before Retriever, the roster lists Retriever    *)
(* before Composer, and Retriever is selected.                             *)
C8_Witness ==
  \E t \in Threads :
     /\ pc[t] = "invoke"
     /\ Len(history[t]) > 1
     /\ last_content(t) = R_TwoNames
     /\ Cardinality(NamedIn(R_TwoNames)) = 2
     /\ selected[t] = Retriever_Agent.name

(* C9: on a history of more than one message whose last content names no   *)
(* roster entry, the selection is the author of the last message, the last *)
(* message's content becomes its old content followed by one copy of the   *)
(* suffix, and every other message stays as it was.                        *)
C9_RetrySameAgent ==
  [][ \A t \in Threads :
        (SelectsLater(t) /\ NamedIn(last_content(t)) = {}) =>
           LET n == Len(history[t])
           IN  /\ pc'[t] = "invoke"
               /\ selected'[t] = history[t][n].name
               /\ Len(history'[t]) = n
               /\ history'[t][n].content = history[t][n].content \o Suffix
               /\ history'[t][n].name = history[t][n].name
               /\ history'[t][n].role = history[t][n].role
               /\ \A k \in 1..(n - 1) : history'[t][k] = history[t][k] ]_vars

(* A response that names nobody carries the suffix and its author, who is  *)
(* not the starting agent, is selected again.                              *)
C9_Witness ==
  \E t \in Threads :
     /\ pc[t] = "invoke"
     /\ Len(history[t]) > 2
     /\ last_content(t) = R_NoName \o Suffix
     /\ selected[t] = history[t][Len(history[t])].name
     /\ selected[t] # STARTING_AGENT.name

(* The text, lowered, holds the letters d, o, n, e in a row. *)
HasKeyword(content) == contains(lower(content), <<"d", "o", "n", "e">>)

(* C10: a termination check on a last message that holds the keyword in    *)
(* any letter case ends the run, at every round count, and a terminated    *)
(* run selects and invokes nothing more.                                   *)
C10_KeywordTerminates ==
  [][ \A t \in Threads :
        /\ (pc[t] = "check" /\ pc'[t] # "check" /\ HasKeyword(last_content(t)))
             => /\ pc'[t] = "terminated"
                /\ invoked'[t] = invoked[t]
        /\ pc[t] = "terminated" =>
             /\ pc'[t] \in {"terminated", "done"}
             /\ invoked'[t] \in {invoked[t], 0}
             /\ pc'[t] = "terminated" => history'[t] = history[t] ]_vars

(* A run ended on the upper-case keyword with rounds still left. *)
C10_Witness ==
  \E t \in Threads :
     /\ pc[t] = "terminated"
     /\ last_content(t) = R_Keyword
     /\ GROUP_CHAT_ORCHESTRATION.manager.current_round \in 1..(max_rounds - 2)

(* How far a run has come: four for each message of its history, plus its  *)
(* place in the turn.                                                      *)
Progress(h, p) ==
  4 * Len(h) + (CASE p \in {"construct", "select"} -> 1
                  [] p = "invoke" -> 2
                  [] p \in Exits \cup {"user_input"} -> 3
                  [] OTHER -> 0)

(* C11: every run terminates.  Each step of a run moves it forward in a    *)
(* measure that never passes 4 * (max_rounds + 1) + 3, a run dispatches at *)
(* most max_rounds = 5 invocations, and the termination check that follows *)
(* the fifth invocation ends the run whatever the messages hold.           *)
C11_EveryRunTerminates ==
  [][ \A t \in Threads :
        /\ (pc[t] \in InBody /\ pc'[t] # "done"
              /\ (pc'[t] # pc[t] \/ history'[t] # history[t]))
             => Progress(history'[t], pc'[t]) > Progress(history[t], pc[t])
        /\ Progress(history'[t], pc'[t]) <= 4 * (5 + 1) + 3
        /\ invoked'[t] <= 5
        /\ (pc[t] = "check" /\ pc'[t] # "check" /\ invoked[t] = 5)
             => pc'[t] = "terminated" ]_vars

(* A run ended by the round cap after five invocations, none of whose      *)
(* responses held the keyword.                                             *)
C11_Witness ==
  \E t \in Threads :
     /\ pc[t] = "terminated"
     /\ invoked[t] = 5
     /\ Len(history[t]) = 6
     /\ \A k \in 2..6 : ~HasKeyword(history[t][k].content)

(* The responses of the log that the callback acts on. *)
NonEmpty == {i \in DOMAIN usage_log : usage_log[i].content \notin {<<>>, <<" ", " ">>}}

(* The count a response reports under a name, zero when it reports none. *)
Reported(entry, attr) ==
  IF "usage" \in entry.metadata.keys /\ attr \in entry.metadata.usage.attrs
  THEN entry.metadata.usage[attr]
  ELSE 0

RECURSIVE SumReported(_, _)
SumReported(n, attr) ==
  IF n = 0 THEN 0
  ELSE SumReported(n - 1, attr) + (IF n \in NonEmpty THEN Reported(usage_log[n], attr) ELSE 0)

(* C12: after any sequence of responses handed to the callback, the prompt *)
(* total is the sum of the prompt counts the non-empty responses report,   *)
(* the completion total the sum of their completion counts, a response     *)
(* without usage metadata counting zero, and the total is the sum of both. *)
C12_TotalsAreSums ==
  /\ process_agent.total_prompt_tokens_consumed = SumReported(Len(usage_log), "prompt_tokens")
  /\ process_agent.total_completion_tokens_consumed
       = SumReported(Len(usage_log), "completion_tokens")
  /\ process_agent.total_tokens_consumed
       = SumReported(Len(usage_log), "prompt_tokens")
           + SumReported(Len(usage_log), "completion_tokens")

(* C13: no run is ever ended by the observer callback raising: a response  *)
(* whose usage metadata is absent or partly present is tolerated and the   *)
(* run goes on to the termination check.                                   *)
C13_MetricsGapTolerated ==
  \A t \in Threads : pc[t] # "callback_failed"

(* C14: a failed invocation appends nothing and dispatches nothing; from   *)
(* the failure the run only leaves, with no selection and no invocation in *)
(* between; and the step that leaves it frees the admission lock and       *)
(* records the failure.                                                    *)
C14_InvocationFailureIsFatal ==
  [][ \A t \in Threads :
        /\ (pc[t] = "invoke" /\ pc'[t] = "invocation_failed")
             => /\ history'[t] = history[t]
                /\ invoked'[t] = invoked[t]
        /\ pc[t] = "invocation_failed"
             => /\ GROUP_CHAT_LOCK = t
                /\ pc'[t] \in {"invocation_failed", "done"}
                /\ pc'[t] = "invocation_failed"
                     => (history'[t] = history[t] /\ invoked'[t] = invoked[t])
                /\ pc'[t] = "done"
                     => /\ GROUP_CHAT_LOCK' = Unlocked
                        /\ outcome'[t] = "invocation_failed"
                        /\ orchestration_result'[t] = <<>> ]_vars

(* A run whose second invocation failed has left, and the lock is free. *)
C14_Witness ==
  \E t \in Threads :
     /\ pc[t] = "done"
     /\ outcome[t] = "invocation_failed"
     /\ GROUP_CHAT_ORCHESTRATION.manager.current_round = 1
     /\ ~locked

(* C15: the result of every terminated run is exactly one message, with    *)
(* role assistant and the text "Summary of the discussion.", and a run     *)
(* that has not terminated has no result.                                  *)
C15_OneSummaryMessage ==
  \A t \in Threads :
     /\ pc[t] = "terminated" =>
          /\ Len(orchestration_result[t]) = 1
          /\ orchestration_result[t][1].role = "assistant"
          /\ orchestration_result[t][1].content =
               <<"S","u","m","m","a","r","y"," ","o","f"," ","t","h","e"," ",
                 "d","i","s","c","u","s","s","i","o","n",".">>
     /\ pc[t] # "terminated" => orchestration_result[t] = <<>>

(* One run stopped by the round cap on a message without the keyword has    *)
(* its result, and an earlier run had been stopped by the keyword.         *)
C15_Witness ==
  \E t, u \in Threads :
     /\ pc[t] = "terminated"
     /\ ~HasKeyword(last_content(t))
     /\ Len(orchestration_result[t]) = 1
     /\ outcome[u] = "terminated"
     /\ GROUP_CHAT_ORCHESTRATION.manager.current_round = 5

(* C16: a GroupChatOrchestration is constructed only while none exists, at *)
(* most one is ever constructed, and once one exists its members, its      *)
(* manager's round cap, the starting agent and the keyword stay as they    *)
(* are.                                                                    *)
C16_ConstructedOnce ==
  [][ /\ constructions' <= 1
      /\ constructions' # constructions => GROUP_CHAT_ORCHESTRATION = NoOrchestration
      /\ GROUP_CHAT_ORCHESTRATION # NoOrchestration =>
           /\ GROUP_CHAT_ORCHESTRATION'.members = GROUP_CHAT_ORCHESTRATION.members
           /\ GROUP_CHAT_ORCHESTRATION'.manager.max_rounds
                = GROUP_CHAT_ORCHESTRATION.manager.max_rounds
           /\ STARTING_AGENT' = STARTING_AGENT
           /\ TERMINATION_KEYWORD' = TERMINATION_KEYWORD ]_vars

(* Two submissions were accepted before either thread took the lock: the   *)
(* first run has built the object and is about to select, the second       *)
(* waits for the lock and will find the object built.                      *)
C16_Witness ==
  \E t, u \in Threads :
     /\ pc[t] = "select"
     /\ invoked[t] = 0
     /\ pc[u] = "start"
     /\ constructions = 1
     /\ \A v \in Threads : outcome[v] = "none"

(* C17: should_request_user_input answers no on the history of every run,  *)
(* and no run waits for the user.                                          *)
C17_NeverAsksTheUser ==
  \A t \in Threads :
     /\ pc[t] # "user_input"
     /\ history[t] # <<>> => ~should_request_user_input(history[t]).result

(* A run went on to its third selection. *)
C17_Witness ==
  \E t \in Threads :
     /\ pc[t] = "select"
     /\ Len(history[t]) = 3
     /\ invoked[t] = 2

(* The interactive loop reads a line in this step. *)
ReadStep == lines_read' = lines_read + 1

(* C18: reading a line that is, stripped and lowered, reset, closes the    *)
(* current runtime, starts one more, leaves every other runtime, the       *)
(* shared object with its manager, the starting agent and the keyword as   *)
(* they were, submits nothing and goes on reading.                         *)
C18_ResetKeepsConfiguration ==
  [][ (ReadStep /\ lower(strip(line')) = <<"r", "e", "s", "e", "t">>) =>
        /\ runtimes[Len(runtimes)] = "started"
        /\ Len(runtimes') = Len(runtimes) + 1
        /\ runtimes'[Len(runtimes)] = "closed"
        /\ runtimes'[Len(runtimes')] = "started"
        /\ \A k \in 1..(Len(runtimes) - 1) : runtimes'[k] = runtimes[k]
        /\ GROUP_CHAT_ORCHESTRATION' = GROUP_CHAT_ORCHESTRATION
        /\ STARTING_AGENT' = STARTING_AGENT
        /\ TERMINATION_KEYWORD' = TERMINATION_KEYWORD
        /\ constructions' = constructions
        /\ submitted' = submitted
        /\ pc' = pc
        /\ history' = history
        /\ console' = "reading" ]_vars

(* A reset was read after a run: the first runtime is closed, the second   *)
(* is started, the object built at the start is still there.               *)
C18_Witness ==
  /\ lower(strip(line)) = <<"r", "e", "s", "e", "t">>
  /\ console = "reading"
  /\ Len(submitted) = 1
  /\ runtimes = <<"closed", "started">>
  /\ GROUP_CHAT_ORCHESTRATION # NoOrchestration
  /\ constructions = 1

(* C19: a line that is, stripped and lowered, exit ends the loop and       *)
(* submits nothing; a line that is empty once stripped submits nothing and *)
(* the loop reads on; every other line but reset submits one run whose     *)
(* task is the stripped line; and no other step submits anything.          *)
C19_LinesOfTheLoop ==
  [][ /\ ReadStep =>
           LET user_input == strip(line')
           IN  /\ lower(user_input) = <<"e", "x", "i", "t">> =>
                    /\ console' = "exited"
                    /\ submitted' = submitted
                    /\ pc' = pc
               /\ user_input = <<>> =>
                    /\ console' = "reading"
                    /\ submitted' = submitted
                    /\ pc' = pc
                    /\ runtimes' = runtimes
               /\ ( /\ user_input # <<>>
                    /\ lower(user_input) # <<"e", "x", "i", "t">>
                    /\ lower(user_input) # <<"r", "e", "s", "e", "t">> ) =>
                    /\ submitted' = Append(submitted, user_input)
                    /\ console' = "running"
                    /\ pc'[Main] = "select"
                    /\ history'[Main] = << [role |-> "user", name |-> <<>>, content |-> user_input] >>
      /\ ~ReadStep => submitted' = submitted ]_vars

(* Three lines were read, one of them a task, and an exit line in another  *)
(* letter case ended the loop.                                             *)
C19_Witness ==
  /\ console = "exited"
  /\ lower(strip(line)) = <<"e", "x", "i", "t">>
  /\ strip(line) # <<"e", "x", "i", "t">>
  /\ lines_read = 3
  /\ Len(submitted) = 1

(* C20: a thread anywhere in its run, from the start of process_group_chat *)
(* through the construction of the shared object and the turn loop to the  *)
(* end or the failure of the run, holds GROUP_CHAT_LOCK.                   *)
C20_LockHeldThroughoutRun ==
  \A t \in Threads : pc[t] \in InBody => GROUP_CHAT_LOCK = t

(* A thread is constructing the shared object, a second has been accepted  *)
(* and waits.                                                              *)
C20_Witness ==
  \E t, u \in Threads :
     /\ pc[t] = "construct"
     /\ GROUP_CHAT_LOCK = t
     /\ pc[u] = "start"

(* The manager's round count. *)
current_round == GROUP_CHAT_ORCHESTRATION.manager.current_round

(* The run of t is the first of the process and no other run has begun. *)
FirstRun(t) ==
  \A u \in Threads \ {t} : pc[u] \in {"none", "start"} /\ outcome[u] = "none"

(* C21: the round count never exceeds 5, and in the first run of the       *)
(* process it equals the number of responses appended and checked so far,  *)
(* a response that ended the run by the keyword included.                  *)
C21_RoundsCountInvocations ==
  /\ current_round <= 5
  /\ \A t \in Threads :
       (FirstRun(t) /\ pc[t] \in {"select", "terminated"}) =>
          current_round = Len(history[t]) - 1

(* C22: a run that the round cap stopped, its last message being without   *)
(* the keyword, has performed 5 invocations, whatever ran before it.       *)
C22_FullBudgetEveryRun ==
  \A t \in Threads :
     (pc[t] = "terminated" /\ ~HasKeyword(last_content(t))) => invoked[t] = 5

(* C23: the termination policy is consulted only from INVOKING, with one   *)
(* assistant message appended in that step; an invocation starts only from *)
(* SELECTING, SELECTING only from the start of the run or from a check, a  *)
(* run terminates only from a check and after at least one invocation; and *)
(* the first selection of a run whose roster holds the starting agent      *)
(* leads to the first invocation.                                          *)
C23_TurnOrder ==
  [][ \A t \in Threads :
        /\ (pc'[t] = "check" /\ pc[t] # "check") =>
             /\ pc[t] = "invoke"
             /\ Len(history'[t]) = Len(history[t]) + 1
             /\ history'[t][Len(history'[t])].role = "assistant"
        /\ (pc'[t] = "invoke" /\ pc[t] # "invoke") => pc[t] = "select"
        /\ (pc'[t] = "select" /\ pc[t] # "select") => pc[t] \in {"init", "construct", "check"}
        /\ (pc'[t] = "terminated" /\ pc[t] # "terminated") =>
             /\ pc[t] = "check"
             /\ invoked[t] >= 1
        /\ (pc[t] = "select" /\ pc'[t] # "select" /\ Len(history[t]) = 1 /\ StartingInRoster) =>
             /\ pc'[t] = "invoke"
             /\ invoked'[t] = 1 ]_vars

(* The task holds the keyword and the first response of the run is being   *)
(* checked.                                                                *)
C23_Witness ==
  \E t \in Threads :
     /\ pc[t] = "check"
     /\ Len(history[t]) = 2
     /\ HasKeyword(history[t][1].content)
     /\ history[t][1].role = "user"
     /\ invoked[t] = 1

(* No response of the run names a roster entry or holds the keyword. *)
Nameless(t) ==
  \A k \in 2..Len(history[t]) :
     /\ NamedIn(history[t][k].content) = {}
     /\ ~HasKeyword(history[t][k].content)

(* C24: in a run none of whose responses names a roster entry or holds the *)
(* keyword, every response is by the speaker of the first, that speaker is *)
(* selected again each time, the selector never fails, the run goes on     *)
(* selecting while the round count is below the cap and is terminated only *)
(* with the cap reached.                                                   *)
C24_SameSpeakerUntilCap ==
  \A t \in Threads :
     (Len(history[t]) >= 2 /\ Nameless(t)) =>
        /\ \A k \in 2..Len(history[t]) : history[t][k].name = history[t][2].name
        /\ pc[t] = "invoke" => selected[t] = history[t][2].name
        /\ pc[t] # "config_error"
        /\ pc[t] = "select" => current_round < 5
        /\ pc[t] = "terminated" => current_round >= 5

(* Five responses that name nobody, the first four given the suffix, and   *)
(* the run is over.                                                        *)
C24_Witness ==
  \E t \in Threads :
     /\ pc[t] = "terminated"
     /\ Len(history[t]) = 6
     /\ Nameless(t)
     /\ \A k \in 2..5 : contains(history[t][k].content, Suffix)
     /\ ~contains(history[t][6].content, Suffix)

(* C25: at most one thread is in an invocation, and the invocations a run  *)
(* has dispatched are the responses it has appended plus, while one is in  *)
(* flight or has failed, that one.                                         *)
C25_OneInvocationInFlight ==
  /\ Cardinality({t \in Threads : pc[t] = "invoke"}) <= 1
  /\ \A t \in Threads :
       /\ pc[t] \in {"invoke", "invocation_failed"} => invoked[t] = Len(history[t])
       /\ pc[t] \in {"select", "check", "terminated", "config_error", "callback_failed"}
            => invoked[t] = Len(history[t]) - 1
       /\ pc[t] \in {"init", "construct"} => invoked[t] = 0

(* The second invocation of a run is in flight while another accepted      *)
(* thread waits.                                                           *)
C25_Witness ==
  \E t, u \in Threads :
     /\ pc[t] = "invoke"
     /\ invoked[t] = 2
     /\ Len(history[t]) = 2
     /\ pc[u] = "start"

(* C26: a run starts from usage totals of zero. *)
C26_TotalsStartAtZero ==
  \A t \in Threads :
     (pc[t] = "select" /\ Len(history[t]) = 1) =>
        /\ process_agent.total_prompt_tokens_consumed = 0
        /\ process_agent.total_completion_tokens_consumed = 0
        /\ process_agent.total_tokens_consumed = 0

(* The text is empty or blanks only. *)
Blank(content) == \A i \in DOMAIN content : content[i] = " "

(* C27: a call of the callback with a response whose content is empty or   *)
(* blanks only leaves the three totals as they were, prints nothing and    *)
(* does not raise; a call with any other content prints the turn.          *)
C27_BlankResponsesIgnored ==
  [][ Len(usage_log') = Len(usage_log) + 1 =>
        LET entry == usage_log'[Len(usage_log')]
        IN  IF Blank(entry.content)
            THEN /\ process_agent' = process_agent
                 /\ ~entry.printed
                 /\ ~entry.raised
            ELSE entry.printed ]_vars

(* After a response that was counted, a blanks-only response without usage *)
(* metadata was handed over and the totals are what they were.             *)
C27_Witness ==
  /\ Len(usage_log) = 2
  /\ usage_log[1].content = R_NoName
  /\ usage_log[2].content = <<" ", " ">>
  /\ usage_log[2].metadata = NoUsage
  /\ ~usage_log[2].raised
  /\ process_agent.total_tokens_consumed = 15

(* C28: a termination check on a last message without the keyword decides *)
(* as the baseline rule decides, hands back the baseline's own result when *)
(* that says stop, and the run stops or goes on selecting accordingly.     *)
C28_BaselineDecides ==
  [][ \A t \in Threads :
        (pc[t] = "check" /\ pc'[t] # "check" /\ ~HasKeyword(last_content(t))) =>
           LET base_result == base_should_terminate(GROUP_CHAT_ORCHESTRATION.manager)
               r == should_terminate(history[t])
           IN  /\ r.result = base_result.result
               /\ base_result.result => r = base_result
               /\ pc'[t] = IF base_result.result THEN "terminated" ELSE "select"
               /\ current_round' = base_result.current_round ]_vars

(* The baseline stopped a run on a message that names two agents. *)
C28_Witness ==
  \E t \in Threads :
     /\ pc[t] = "terminated"
     /\ last_content(t) = R_TwoNames
     /\ current_round = 5
     /\ invoked[t] = 3

(* C29: while a run lasts its history does not shrink, every message keeps *)
(* its place, role and author, and a content changes only in the message   *)
(* that is last, by the suffix being appended to it.                       *)
C29_HistoryAppendOnly ==
  [][ \A t \in Threads :
        (pc[t] \in InBody /\ pc'[t] \in InBody) =>
           /\ Len(history'[t]) >= Len(history[t])
           /\ \A k \in 1..Len(history[t]) :
                /\ history'[t][k].role = history[t][k].role
                /\ history'[t][k].name = history[t][k].name
                /\ \/ history'[t][k].content = history[t][k].content
                   \/ /\ k = Len(history[t])
                      /\ Len(history'[t]) = Len(history[t])
                      /\ history'[t][k].content = history[t][k].content \o Suffix ]_vars

(* A response was given the suffix and another response follows it. *)
C29_Witness ==
  \E t \in Threads :
     /\ Len(history[t]) = 4
     /\ history[t][2].content = R_NoName \o Suffix
     /\ history[t][3].content = R_TwoNames
     /\ history[t][4].content = R_NoName

(* C30: a response that holds the keyword is the last of its history, has  *)
(* not been given the suffix, and its run is at the termination check or   *)
(* terminated: no selection follows it, also when it names a roster entry. *)
C30_TerminationBeforeSelection ==
  \A t \in Threads :
     \A k \in 2..Len(history[t]) :
        HasKeyword(history[t][k].content) =>
           /\ k = Len(history[t])
           /\ ~contains(history[t][k].content, Suffix)
           /\ pc[t] \in {"check", "terminated"}

(* A response with the keyword and the name of a roster entry ended the    *)
(* run with rounds left; the named entry was not selected.                 *)
C30_Witness ==
  \E t \in Threads :
     /\ pc[t] = "terminated"
     /\ last_content(t) = R_KeywordAndName
     /\ NamedIn(R_KeywordAndName) # {}
     /\ selected[t] # Composer_Agent.name
     /\ current_round < 4

(* The names of the roster. *)
RosterNames == {roster[i] : i \in DOMAIN roster}

(* C31: every selection that leads to an invocation chose a name of the    *)
(* roster: on the first message the roster's spelling of the starting      *)
(* agent, on a name match a named entry, otherwise the author of the last  *)
(* message; and every response in a history is by a roster entry.          *)
C31_SelectedIsInRoster ==
  [][ \A t \in Threads :
        (pc[t] = "select" /\ pc'[t] = "invoke") =>
           /\ selected'[t] \in RosterNames
           /\ \A k \in 2..Len(history[t]) : history[t][k].name \in RosterNames
           /\ IF Len(history[t]) = 1
              THEN lower(selected'[t]) = lower(STARTING_AGENT.name)
              ELSE IF NamedIn(last_content(t)) # {}
                   THEN \E i \in NamedIn(last_content(t)) : selected'[t] = roster[i]
                   ELSE selected'[t] = history[t][Len(history[t])].name ]_vars

(* The roster spells the starting agent in lower case; its nameless        *)
(* response made the selector return the author of the last message.       *)
C31_Witness ==
  \E t \in Threads :
     /\ pc[t] = "invoke"
     /\ invoked[t] = 2
     /\ selected[t] = triage_agent_lc.name
     /\ selected[t] # STARTING_AGENT.name
     /\ NamedIn(R_NoName) = {}
     /\ history[t][2].content = R_NoName \o Suffix

(* C32: the total-token accumulator is the sum of the prompt-token and the *)
(* completion-token accumulators, whatever responses were handed to the    *)
(* callback.                                                               *)
C32_TotalIsPromptPlusCompletion ==
  process_agent.total_tokens_consumed
    = process_agent.total_prompt_tokens_consumed
        + process_agent.total_completion_tokens_consumed

(* Two responses were counted, and between them one whose usage object     *)
(* reports a total above the sum of its counts was handed over.            *)
C32_Witness ==
  /\ Len(usage_log) = 3
  /\ usage_log[2].content = R_NoName
  /\ usage_log[2].metadata = WithUsage(UsageWithOverhead)
  /\ process_agent.total_prompt_tokens_consumed = 13
  /\ process_agent.total_completion_tokens_consumed = 7
  /\ process_agent.total_tokens_consumed = 20

(* C33: no step, be it a callback, a reset, the start or the end of a run, *)
(* lowers any of the three usage accumulators.                             *)
C33_TotalsNeverDecrease ==
  [][ /\ process_agent'.total_prompt_tokens_consumed
           >= process_agent.total_prompt_tokens_consumed
      /\ process_agent'.total_completion_tokens_consumed
           >= process_agent.total_completion_tokens_consumed
      /\ process_agent'.total_tokens_consumed >= process_agent.total_tokens_consumed ]_vars

(* A response was counted, the conversation was reset, and the first       *)
(* response of a later run has been counted on top.                        *)
C33_Witness ==
  /\ entry_point = "process_specific_agent"
  /\ Len(submitted) = 2
  /\ Len(runtimes) = 2
  /\ runtimes[1] = "closed"
  /\ pc[Main] = "check"
  /\ invoked[Main] = 1
  /\ process_agent.total_prompt_tokens_consumed = 6
  /\ process_agent.total_tokens_consumed = 10

(* C34: the interactive loop is left only on a line that reads exit: a     *)
(* run that completes is followed by the next read, not by the end of the  *)
(* loop.                                                                   *)
C34_OnlyExitEndsLoop ==
  console = "exited" => is_exit(strip(line))

(* A response with the keyword is at its termination check. *)
KeywordAtCheck(t) == pc[t] = "check" /\ HasKeyword(last_content(t))

(* C35: the termination check of a last message that holds the keyword     *)
(* answers stop with the reason "Custom termination logic.".               *)
C35_KeywordReasonIsCustom ==
  \A t \in Threads :
     KeywordAtCheck(t) =>
        /\ should_terminate(history[t]).result
        /\ should_terminate(history[t]).reason = "Custom termination logic."

(* C35 as stated: the termination check of a last message that holds the   *)
(* keyword answers with the reason "keyword matched".                      *)
C35_KeywordReasonIsKeywordMatched ==
  \A t \in Threads :
     KeywordAtCheck(t) => should_terminate(history[t]).reason = "keyword matched"

(* The second response of a run holds the keyword in other letter case     *)
(* than configured and is at its termination check.                        *)
C35_Witness ==
  \E t \in Threads :
     /\ KeywordAtCheck(t)
     /\ Len(history[t]) = 3
     /\ ~contains(last_content(t), TERMINATION_KEYWORD)

(* C36: when no run is in progress, every runtime that was started has     *)
(* been closed.                                                            *)
C36_RuntimesClosedAfterRun ==
  (\A t \in Threads : pc[t] \notin InBody) =>
     \A i \in DOMAIN runtimes : runtimes[i] = "closed"

(* The remote call of this step raised a quota error. *)
QuotaHit ==
  /\ error'.kind = "ClientError"
  /\ error'.msg \in {<<"4","2","9"," ","R","E","S","O","U","R","C","E","_","E","X","H","A","U","S","T","E","D">>,
                    <<"Q","u","o","t","a"," ","e","x","c","e","e","d","e","d">>}

(* C37: a batch gets at most MAX_RETRIES remote calls, attempt n being the *)
(* n-th; a quota error is followed by a back-off of BACKOFF_BASE to the    *)
(* power of the attempt and, below the fifth call, by the next attempt,    *)
(* at the fifth by the fallback; any other exception leaves the function   *)
(* at once, with no back-off, no further call and no fallback; and the     *)
(* fallback supplies a batch only without a client or after five calls.    *)
C37_EmbedRetryBound ==
  [][ /\ calls' <= MAX_RETRIES
      /\ embed_pc = "attempt" => (calls = attempt - 1 /\ Len(slept) = calls)
      /\ calls' = calls + 1 =>
           IF QuotaHit
           THEN /\ slept' = Append(slept, BACKOFF_BASE ^ calls')
                /\ IF calls' < MAX_RETRIES
                   THEN embed_pc' = "attempt" /\ attempt' = attempt + 1 /\ embs' = embs
                   ELSE embed_pc' = "idle" /\ embs' = Append(embs, "fallback")
           ELSE IF error'.kind = "none"
           THEN embed_pc' = "idle" /\ embs' = Append(embs, "remote") /\ slept' = slept
           ELSE /\ embed_pc' = "raised"
                /\ embs' = embs
                /\ slept' = slept
                /\ local_embedder' = local_embedder
      /\ embed_pc = "raised" => embedding' = embedding
      /\ embs' = Append(embs, "fallback") =>
           /\ local_embedder'
           /\ \/ client = "None" /\ calls' = 0
              \/ client = "Client" /\ calls' = MAX_RETRIES /\ Len(slept') = MAX_RETRIES ]_vars

(* A batch was embedded remotely; the next met five quota errors, backed   *)
(* off after each and was embedded by the fallback.                        *)
C37_Witness ==
  /\ client = "Client"
  /\ embs = <<"remote", "fallback">>
  /\ calls = MAX_RETRIES
  /\ slept = <<2, 4, 8, 16, 32>>
  /\ local_embedder

====
